---------------------------- MODULE Spec2Model ----------------------------
(***************************************************************************)
(* Model of the client-side input pipeline of zellij-client:               *)
(*   zellij-client/src/input_handler.rs   (InputHandler, the input loop)   *)
(*   zellij-utils/src/input/mod.rs        (cast_crossterm_key)             *)
(*   zellij-utils/src/input/mouse.rs      (MouseEvent::from)               *)
(* The input thread is modelled by a program counter pc and the fields of  *)
(* InputHandler; the server, the acknowledgment path of the blocking gate  *)
(* (CommandIsExecuting) and the mouse-hold repeater are the collaborators  *)
(* the handler talks to.                                                   *)
(***************************************************************************)
EXTENDS Integers, Sequences, FiniteSets, TLC

\* ------------------------------------------------------------------ bounds
\* Number of raw events the terminal delivers in one run.
MaxEvents == 2
\* Number of times the mouse-hold repeater fires in one run.
MaxTicks == 2

\* ------------------------------------------------------------------ data
InputMode ==
    {"Normal", "Locked", "Resize", "Pane", "Tab", "Scroll", "RenameTab", "Session"}

NoMode == "-"

\* An Action: its variant, the mode of SwitchToMode, the Position of the
\* mouse actions (row, column). Unused fields hold NoMode / 0.
Act(t) == [type |-> t, mode |-> NoMode, row |-> 0, col |-> 0]
SwitchToMode(m) == [type |-> "SwitchToMode", mode |-> m, row |-> 0, col |-> 0]
PointAct(t, p) == [type |-> t, mode |-> NoMode, row |-> p.row, col |-> p.col]

\* The variants dispatch_action blocks on.
StructuralTypes ==
    {"CloseFocus", "NewPane", "NewTab", "GoToNextTab", "GoToPreviousTab",
     "CloseTab", "GoToTab", "ToggleTab", "MoveFocusOrTab"}

ExitTypes == {"Quit", "Detach"}

IsStructural(a) == a.type \in StructuralTypes

\* ------------------------------------------------------------------ keys
\* A decoded Key: variant k and, for Char/Ctrl/Alt, the character c.
Key(k, c) == [k |-> k, c |-> c]
\* What unimplemented!() / todo!() leave behind: the thread panics.
Unimplemented == Key("!unimplemented", "")
\* No key event is being handled.
NoKey == Key("-", "")

\* A raw crossterm KeyEvent.
KeyEvent(code, c, modifiers) ==
    [kind |-> "Key", code |-> code, c |-> c, modifiers |-> modifiers,
     button |-> "-", column |-> 0, row |-> 0]
\* A raw crossterm MouseEvent (kind, button, one-based column and row).
RawMouse(kind, button, column, row) ==
    [kind |-> kind, code |-> "-", c |-> "", modifiers |-> "-",
     button |-> button, column |-> column, row |-> row]
ResizeEvent ==
    [kind |-> "Resize", code |-> "-", c |-> "", modifiers |-> "-",
     button |-> "-", column |-> 0, row |-> 0]

cast_crossterm_key_code(code, c) ==
    CASE code = "Enter" -> Key("Char", "\n")
      [] code = "Tab"   -> Key("Char", "\t")
      [] code = "Char"  -> Key("Char", c)
      [] OTHER          -> Key(code, c)

cast_crossterm_key(event) ==
    LET key == cast_crossterm_key_code(event.code, event.c) IN
    CASE event.modifiers = "NONE"    -> key
      [] event.modifiers = "SHIFT"   -> key
      [] event.modifiers = "CONTROL" ->
            IF key.k = "Char" THEN Key("Ctrl", key.c) ELSE Unimplemented
      [] event.modifiers = "ALT"     ->
            IF key.k = "Char" THEN Key("Alt", key.c) ELSE Unimplemented
      [] OTHER                       -> Unimplemented

\* ------------------------------------------------------------------ mouse
\* u16::saturating_sub
saturating_sub(x, y) == IF x >= y THEN x - y ELSE 0

Position(r, c) == [row |-> r, col |-> c]

\* A decoded MouseEvent: Press(button, point) | Release(point) | Hold(point).
MouseEv(e, b, p) == [e |-> e, button |-> b, point |-> p]
\* MouseEventKind::Moved => todo!()
MouseTodo == MouseEv("!todo", "-", Position(0, 0))

MouseButtonFrom(button) == button

\* MouseEvent::from with row and column the wrong way round.
MouseEventFrom_swapped(event) ==
    LET point == Position(saturating_sub(event.column, 1),
                          saturating_sub(event.row, 1)) IN
    CASE event.kind = "Down"       -> MouseEv("Press", MouseButtonFrom(event.button), point)
      [] event.kind = "Up"         -> MouseEv("Release", "-", point)
      [] event.kind = "Drag"       -> MouseEv("Hold", "-", point)
      [] event.kind = "Moved"      -> MouseTodo
      [] event.kind = "ScrollDown" -> MouseEv("Press", "WheelDown", point)
      [] event.kind = "ScrollUp"   -> MouseEv("Press", "WheelUp", point)

MouseEventFrom(event) ==
    LET point == Position(saturating_sub(event.row, 1),
                          saturating_sub(event.column, 1)) IN
    CASE event.kind = "Down"       -> MouseEv("Press", MouseButtonFrom(event.button), point)
      [] event.kind = "Up"         -> MouseEv("Release", "-", point)
      [] event.kind = "Drag"       -> MouseEv("Hold", "-", point)
      [] event.kind = "Moved"      -> MouseTodo
      [] event.kind = "ScrollDown" -> MouseEv("Press", "WheelDown", point)
      [] event.kind = "ScrollUp"   -> MouseEv("Press", "WheelUp", point)


\* ------------------------------------------------------------------ keybinding table
Bind(m, key, actions) == [mode |-> m, key |-> key, actions |-> actions]

\* config.keybinds: the (mode, key) -> actions table the handler is given.
keybinds ==
    { Bind(m, Key("Ctrl", "q"), <<Act("Quit")>>) : m \in InputMode }
    \cup
    { Bind("Normal", Key("Ctrl", "p"), <<SwitchToMode("Pane")>>),
      Bind("Normal", Key("Ctrl", "n"), <<SwitchToMode("Tab")>>),
      Bind("Normal", Key("Alt", "n"), <<Act("NewPane")>>),
      Bind("Locked", Key("Ctrl", "p"), <<SwitchToMode("Normal")>>),
      Bind("Pane", Key("Char", "n"), <<Act("NewPane"), SwitchToMode("Normal")>>),
      Bind("Pane", Key("Char", "p"), <<Act("SwitchFocus")>>),
      Bind("Pane", Key("Char", "q"), <<Act("Quit"), Act("CloseFocus")>>),
      Bind("Pane", Key("Char", "\n"), <<SwitchToMode("Normal")>>),
      Bind("Pane", Key("Left", ""), <<Act("MoveFocus")>>),
      Bind("Tab", Key("Char", "n"), <<Act("NewTab"), SwitchToMode("Normal")>>),
      Bind("Tab", Key("Left", ""), <<Act("GoToPreviousTab")>>),
      Bind("Tab", Key("Char", "\n"), <<SwitchToMode("Normal")>>),
      Bind("Session", Key("Char", "q"), <<Act("Detach")>>) }

\* Keybinds::key_to_actions: the bound sequence, empty when there is none.
key_to_actions(key, m, kb) ==
    IF \E b \in kb : b.mode = m /\ b.key = key
    THEN (CHOOSE b \in kb : b.mode = m /\ b.key = key).actions
    ELSE <<>>

\* ------------------------------------------------------------------ inputs
Modifiers == {"NONE", "SHIFT", "CONTROL", "ALT", "CONTROL_ALT"}

KeyCodes == {<<"Char", "q">>, <<"Char", "n">>, <<"Char", "p">>,
             <<"Enter", "">>, <<"Left", "">>}

KeyEvents == { KeyEvent(kc[1], kc[2], m) : kc \in KeyCodes, m \in Modifiers }

\* One-based (column, row) pairs the terminal reports.
RawPoints == {<<0, 0>>, <<1, 1>>, <<5, 10>>}

MouseKinds == {<<"Down", "Left">>, <<"Down", "Right">>, <<"Down", "Middle">>,
               <<"Up", "Left">>, <<"Drag", "Left">>, <<"Moved", "-">>,
               <<"ScrollDown", "-">>, <<"ScrollUp", "-">>}

MouseEvents == { RawMouse(k[1], k[2], p[1], p[2]) : k \in MouseKinds, p \in RawPoints }

\* ------------------------------------------------------------------ state
VARIABLES
    mode,                  \* InputHandler.mode
    should_exit,           \* InputHandler.should_exit
    pasting,               \* InputHandler.pasting
    key_read,              \* handle_input's local `key`: the Key decoded from the event read last
    pc,                    \* where the input thread is
    pending,               \* actions handle_key's for loop has still to dispatch
    nread,                 \* raw events read so far
    command_is_executing,  \* the gate's flag: the input thread is to block
    server_rx,             \* everything sent to the server, in order
    served,                \* how many of them the server has handled
    acks,                  \* acknowledgments on their way to the client
    client_rx,             \* ClientInstruction::Exit notifications sent
    repeater,              \* the action the mouse-hold repeater re-sends
    ticks                  \* times the repeater fired

vars == <<mode, should_exit, pasting, key_read, pc, pending, nread,
          command_is_executing, server_rx, served, acks, client_rx,
          repeater, ticks>>

\* The variables only the input thread writes.
inputVars == <<mode, should_exit, pasting, key_read, pc, pending, nread, client_rx>>

NoAction == Act("None")

Msg(by, a) == [by |-> by, act |-> a]

\* os_input.send_to_server: a one-way post.
send_to_server(rx, by, a) == Append(rx, Msg(by, a))

RECURSIVE send_all(_, _, _)
send_all(rx, by, as) ==
    IF as = <<>> THEN rx ELSE send_all(send_to_server(rx, by, Head(as)), by, Tail(as))

\* InputHandler::new
Init ==
    /\ mode \in InputMode
    /\ should_exit = FALSE
    /\ pasting = FALSE
    /\ key_read = NoKey
    /\ pc = "loop"
    /\ pending = <<>>
    /\ nread = 0
    /\ command_is_executing = FALSE
    /\ server_rx = <<>>
    /\ served = 0
    /\ acks = 0
    /\ client_rx = 0
    /\ repeater = NoAction
    /\ ticks = 0

\* Where the thread goes once the actions left are `rest`: back into
\* handle_key's for loop, or out of it to the top of handle_input's loop.
after(rest) == IF rest = <<>> THEN "loop" ELSE "keys"

\* ------------------------------------------------------------------ handle_input
\* loop { if self.should_exit { break; } ... }
Terminate ==
    /\ pc = "loop"
    /\ should_exit
    /\ pc' = "terminated"
    /\ UNCHANGED <<mode, should_exit, pasting, key_read, pending, nread,
                   command_is_executing, server_rx, served, acks, client_rx,
                   repeater, ticks>>

\* Err(err) => panic!
ReadError ==
    /\ pc = "loop"
    /\ ~should_exit
    /\ pc' = "panicked"
    /\ UNCHANGED <<mode, should_exit, pasting, key_read, pending, nread,
                   command_is_executing, server_rx, served, acks, client_rx,
                   repeater, ticks>>

\* Event::Resize(_cols, _rows) => todo!()
ReadResize ==
    /\ pc = "loop"
    /\ ~should_exit
    /\ nread < MaxEvents
    /\ nread' = nread + 1
    /\ key_read' = NoKey
    /\ pc' = "panicked"
    /\ UNCHANGED <<mode, should_exit, pasting, pending,
                   command_is_executing, server_rx, served, acks, client_rx,
                   repeater, ticks>>

Reverse(q) == [i \in 1..Len(q) |-> q[Len(q) + 1 - i]]

\* handle_key falling back to a Write of the key when the table has no
\* entry for it.
handle_key_default_write(ev) ==
    LET key == cast_crossterm_key(ev)
        actions == key_to_actions(key, mode, keybinds) IN
    /\ pc = "loop"
    /\ ~should_exit
    /\ nread < MaxEvents
    /\ nread' = nread + 1
    /\ key_read' = key
    /\ IF key = Unimplemented
       THEN /\ pc' = "panicked"
            /\ pending' = pending
       ELSE /\ pending' = IF actions = <<>> THEN <<Act("Write")>> ELSE actions
            /\ pc' = after(pending')
    /\ UNCHANGED <<mode, should_exit, pasting,
                   command_is_executing, server_rx, served, acks, client_rx,
                   repeater, ticks>>

\* handle_key walking the bound actions from the last to the first.
handle_key_reversed(ev) ==
    LET key == cast_crossterm_key(ev) IN
    /\ pc = "loop"
    /\ ~should_exit
    /\ nread < MaxEvents
    /\ nread' = nread + 1
    /\ key_read' = key
    /\ IF key = Unimplemented
       THEN /\ pc' = "panicked"
            /\ pending' = pending
       ELSE /\ pending' = Reverse(key_to_actions(key, mode, keybinds))
            /\ pc' = after(pending')
    /\ UNCHANGED <<mode, should_exit, pasting,
                   command_is_executing, server_rx, served, acks, client_rx,
                   repeater, ticks>>

\* Event::Key(key): cast_crossterm_key, then handle_key up to its for loop.
handle_key(ev) ==
    LET key == cast_crossterm_key(ev) IN
    /\ pc = "loop"
    /\ ~should_exit
    /\ nread < MaxEvents
    /\ nread' = nread + 1
    /\ key_read' = key
    /\ IF key = Unimplemented
       THEN /\ pc' = "panicked"
            /\ pending' = pending
       ELSE IF pasting
       THEN \* Action::Write(todo!()) in Normal and Locked, nothing elsewhere
            /\ pc' = IF mode \in {"Normal", "Locked"} THEN "panicked" ELSE "loop"
            /\ pending' = pending
       ELSE /\ pending' = key_to_actions(key, mode, keybinds)
            /\ pc' = after(pending')
    /\ UNCHANGED <<mode, should_exit, pasting,
                   command_is_executing, server_rx, served, acks, client_rx,
                   repeater, ticks>>

\* The actions handle_mouse_event dispatches for a decoded mouse event.
mouse_actions(me) ==
    CASE me.e = "Press" /\ me.button = "WheelUp"   -> <<PointAct("ScrollUpAt", me.point)>>
      [] me.e = "Press" /\ me.button = "WheelDown" -> <<PointAct("ScrollDownAt", me.point)>>
      [] me.e = "Press" /\ me.button = "Left"      -> <<PointAct("LeftClick", me.point)>>
      [] me.e = "Release"                          -> <<PointAct("MouseRelease", me.point)>>
      [] me.e = "Hold"                             -> <<PointAct("MouseHold", me.point)>>
      [] OTHER                                     -> <<>>

\* os_input.start_action_repeater: start, or refresh, the one repeater.
start_action_repeater(a) == a

\* The repeater after handle_mouse_event has handled `me`.
mouse_repeater(me, rep) ==
    IF me.e = "Hold"
    THEN start_action_repeater(PointAct("MouseHold", me.point))
    ELSE rep

\* Event::Mouse(me): MouseEvent::from, then handle_mouse_event. Every action
\* it dispatches takes dispatch_action's last arm: a plain send.
handle_mouse_event(ev) ==
    LET me == MouseEventFrom(ev) IN
    /\ pc = "loop"
    /\ ~should_exit
    /\ nread < MaxEvents
    /\ nread' = nread + 1
    /\ key_read' = NoKey
    /\ IF me = MouseTodo
       THEN /\ pc' = "panicked"
            /\ UNCHANGED <<server_rx, repeater>>
       ELSE /\ pc' = "loop"
            /\ server_rx' = send_all(server_rx, "input", mouse_actions(me))
            /\ repeater' = mouse_repeater(me, repeater)
    /\ UNCHANGED <<mode, should_exit, pasting, pending,
                   command_is_executing, served, acks, client_rx, ticks>>

\* ------------------------------------------------------------------ dispatch_action
\* Action::Quit | Action::Detach: send_to_server(action), then on to exit().
dispatch_quit ==
    /\ pc = "keys"
    /\ Head(pending).type \in ExitTypes
    /\ server_rx' = send_to_server(server_rx, "input", Head(pending))
    /\ pc' = "exiting"
    /\ UNCHANGED <<mode, should_exit, pasting, key_read, pending, nread,
                   command_is_executing, served, acks, client_rx, repeater, ticks>>
\* exit() with handle_key dropping dispatch_action's return value: the
\* notification is sent, the exit flag stays down.
exit_keeps_flag ==
    /\ pc = "exiting"
    /\ client_rx' = client_rx + 1
    /\ pending' = Tail(pending)
    /\ pc' = after(pending')
    /\ UNCHANGED <<mode, should_exit, pasting, key_read, nread,
                   command_is_executing, server_rx, served, acks, repeater, ticks>>

\* exit() that also puts the mode mirror back to Normal.
exit_resets_mode ==
    /\ pc = "exiting"
    /\ client_rx' = client_rx + 1
    /\ should_exit' = TRUE
    /\ mode' = "Normal"
    /\ pending' = Tail(pending)
    /\ pc' = after(pending')
    /\ UNCHANGED <<pasting, key_read, nread,
                   command_is_executing, server_rx, served, acks, repeater, ticks>>
\* exit() that sets the flag and sends no notification.
exit_without_notification ==
    /\ pc = "exiting"
    /\ should_exit' = TRUE
    /\ pending' = Tail(pending)
    /\ pc' = after(pending')
    /\ UNCHANGED <<mode, pasting, key_read, nread, client_rx,
                   command_is_executing, server_rx, served, acks, repeater, ticks>>

\* handle_key breaking out of its for loop as soon as a dispatch says stop.
exit_breaks_at_once ==
    /\ pc = "exiting"
    /\ client_rx' = client_rx + 1
    /\ should_exit' = TRUE
    /\ pending' = <<>>
    /\ pc' = "loop"
    /\ UNCHANGED <<mode, pasting, key_read, nread,
                   command_is_executing, server_rx, served, acks, repeater, ticks>>

\* self.exit(); should_break = true; and back in handle_key:
\* if should_exit { self.should_exit = true; }
exit ==
    /\ pc = "exiting"
    /\ client_rx' = client_rx + 1
    /\ should_exit' = TRUE
    /\ pending' = Tail(pending)
    /\ pc' = after(pending')
    /\ UNCHANGED <<mode, pasting, key_read, nread,
                   command_is_executing, server_rx, served, acks, repeater, ticks>>
\* SwitchToMode sent to the server with the mode mirror left as it is.
dispatch_switch_keeps_mode ==
    /\ pc = "keys"
    /\ Head(pending).type = "SwitchToMode"
    /\ server_rx' = send_to_server(server_rx, "input", Head(pending))
    /\ pending' = Tail(pending)
    /\ pc' = after(pending')
    /\ UNCHANGED <<mode, should_exit, pasting, key_read, nread,
                   command_is_executing, served, acks, client_rx, repeater, ticks>>

\* Action::SwitchToMode(mode): self.mode = mode; send_to_server(action).
dispatch_switch_to_mode ==
    /\ pc = "keys"
    /\ Head(pending).type = "SwitchToMode"
    /\ mode' = Head(pending).mode
    /\ server_rx' = send_to_server(server_rx, "input", Head(pending))
    /\ pending' = Tail(pending)
    /\ pc' = after(pending')
    /\ UNCHANGED <<should_exit, pasting, key_read, nread,
                   command_is_executing, served, acks, client_rx, repeater, ticks>>
\* A structural action taking dispatch_action's last arm: a plain send.
blocking_as_plain_send ==
    /\ pc = "keys"
    /\ IsStructural(Head(pending))
    /\ server_rx' = send_to_server(server_rx, "input", Head(pending))
    /\ pending' = Tail(pending)
    /\ pc' = after(pending')
    /\ UNCHANGED <<mode, should_exit, pasting, key_read, nread,
                   command_is_executing, served, acks, client_rx, repeater, ticks>>

\* A structural action dispatched without engaging the gate.
blocking_without_engage ==
    /\ pc = "keys"
    /\ IsStructural(Head(pending))
    /\ pc' = "engaged"
    /\ UNCHANGED <<mode, should_exit, pasting, key_read, pending, nread,
                   command_is_executing, server_rx, served, acks, client_rx,
                   repeater, ticks>>

\* A structural action, first step:
\* self.command_is_executing.blocking_input_thread().
blocking_input_thread ==
    /\ pc = "keys"
    /\ IsStructural(Head(pending))
    /\ command_is_executing' = TRUE
    /\ pc' = "engaged"
    /\ UNCHANGED <<mode, should_exit, pasting, key_read, pending, nread,
                   server_rx, served, acks, client_rx, repeater, ticks>>
\* A structural action sent, and dispatch_action returning without the wait.
send_structural_no_wait ==
    /\ pc = "engaged"
    /\ server_rx' = send_to_server(server_rx, "input", Head(pending))
    /\ pending' = Tail(pending)
    /\ pc' = after(pending')
    /\ UNCHANGED <<mode, should_exit, pasting, key_read, nread,
                   command_is_executing, served, acks, client_rx, repeater, ticks>>

\* A structural action, second step: send_to_server(action).
send_structural ==
    /\ pc = "engaged"
    /\ server_rx' = send_to_server(server_rx, "input", Head(pending))
    /\ pc' = "waiting"
    /\ UNCHANGED <<mode, should_exit, pasting, key_read, pending, nread,
                   command_is_executing, served, acks, client_rx, repeater, ticks>>
\* The wait giving up after a timeout, whatever the gate's flag says.
wait_with_timeout ==
    /\ pc = "waiting"
    /\ pending' = Tail(pending)
    /\ pc' = after(pending')
    /\ UNCHANGED <<mode, should_exit, pasting, key_read, nread,
                   command_is_executing, server_rx, served, acks, client_rx,
                   repeater, ticks>>

\* The wait with its condition inverted: it returns while the flag is up.
wait_inverted ==
    /\ pc = "waiting"
    /\ command_is_executing
    /\ pending' = Tail(pending)
    /\ pc' = after(pending')
    /\ UNCHANGED <<mode, should_exit, pasting, key_read, nread,
                   command_is_executing, server_rx, served, acks, client_rx,
                   repeater, ticks>>

\* A structural action, third step:
\* self.command_is_executing.wait_until_input_thread_is_unblocked()
\* returns once the gate's flag is down.
wait_until_input_thread_is_unblocked ==
    /\ pc = "waiting"
    /\ ~command_is_executing
    /\ pending' = Tail(pending)
    /\ pc' = after(pending')
    /\ UNCHANGED <<mode, should_exit, pasting, key_read, nread,
                   command_is_executing, server_rx, served, acks, client_rx,
                   repeater, ticks>>

\* _ => send_to_server(action)
dispatch_other ==
    /\ pc = "keys"
    /\ Head(pending).type \notin ExitTypes \cup StructuralTypes \cup {"SwitchToMode"}
    /\ server_rx' = send_to_server(server_rx, "input", Head(pending))
    /\ pending' = Tail(pending)
    /\ pc' = after(pending')
    /\ UNCHANGED <<mode, should_exit, pasting, key_read, nread,
                   command_is_executing, served, acks, client_rx, repeater, ticks>>

\* ------------------------------------------------------------------ collaborators
\* The repeater's timer fires: it sends its action once more.
RepeaterTick ==
    /\ repeater # NoAction
    /\ ticks < MaxTicks
    /\ server_rx' = send_to_server(server_rx, "repeater", repeater)
    /\ ticks' = ticks + 1
    /\ UNCHANGED <<mode, should_exit, pasting, key_read, pc, pending, nread,
                   command_is_executing, served, acks, client_rx, repeater>>

\* The server handles the next action it received; having applied a
\* structural one it sends the acknowledgment.
ServerHandle ==
    /\ served < Len(server_rx)
    /\ served' = served + 1
    /\ acks' = IF IsStructural(server_rx[served + 1].act) THEN acks + 1 ELSE acks
    /\ UNCHANGED <<mode, should_exit, pasting, key_read, pc, pending, nread,
                   command_is_executing, server_rx, client_rx, repeater, ticks>>

\* The acknowledgment arrives: the gate is released
\* (command_is_executing.unblock_input_thread()).
UnblockInputThread ==
    /\ acks > 0
    /\ acks' = acks - 1
    /\ command_is_executing' = FALSE
    /\ UNCHANGED <<mode, should_exit, pasting, key_read, pc, pending, nread,
                   server_rx, served, client_rx, repeater, ticks>>

\* ------------------------------------------------------------------ specification
InputThread ==
    \/ Terminate
    \/ dispatch_quit
    \/ exit
    \/ dispatch_switch_to_mode
    \/ blocking_input_thread
    \/ send_structural
    \/ wait_until_input_thread_is_unblocked
    \/ dispatch_other

Next ==
    \/ \E ev \in KeyEvents : handle_key(ev)
    \/ \E ev \in MouseEvents : handle_mouse_event(ev)
    \/ ReadResize
    \/ ReadError
    \/ Terminate
    \/ dispatch_quit
    \/ exit
    \/ dispatch_switch_to_mode
    \/ blocking_input_thread
    \/ send_structural
    \/ wait_until_input_thread_is_unblocked
    \/ dispatch_other
    \/ RepeaterTick
    \/ ServerHandle
    \/ UnblockInputThread

Spec == Init /\ [][Next]_vars

\* The input thread keeps running, the server handles what it receives and
\* every acknowledgment it sends arrives. Nothing obliges the terminal to
\* deliver another event or the repeater's timer to fire.
FairSpec ==
    /\ Init /\ [][Next]_vars
    /\ WF_vars(InputThread)
    /\ WF_vars(ServerHandle)
    /\ WF_vars(UnblockInputThread)

\* ------------------------------------------------------------------ bracketed paste
\* The bracketed-paste start or end marker goes by in the raw byte stream:
\* the pasting flag is set by the first and cleared by the second. Nothing
\* in handle_input does this; it is what the flag is declared for.
BracketedPasteMarker ==
    /\ pc = "loop"
    /\ ~should_exit
    /\ pasting' = ~pasting
    /\ UNCHANGED <<mode, should_exit, key_read, pc, pending, nread,
                   command_is_executing, server_rx, served, acks, client_rx,
                   repeater, ticks>>

PasteNext ==
    \/ Next
    \/ BracketedPasteMarker

\* The handler with the pasting flag toggled by the paste markers.
PasteSpec == Init /\ [][PasteNext]_vars

\* ------------------------------------------------------------------ vocabulary of the properties
\* What the input thread itself has sent to the server.
InputSent(rx) == SelectSeq(rx, LAMBDA m : m.by = "input")

\* What the repeater has sent to the server.
RepeaterSent(rx) == SelectSeq(rx, LAMBDA m : m.by = "repeater")

\* Structural actions sent and not yet acknowledged: those the server has
\* still to handle, and those whose acknowledgment is on its way.
InFlight ==
    Cardinality({i \in (served + 1)..Len(server_rx) : IsStructural(server_rx[i].act)})
    + acks

Last(S) == CHOOSE i \in S : \A j \in S : j <= i

SwitchSends == {i \in 1..Len(server_rx) : server_rx[i].act.type = "SwitchToMode"}

\* The mode of the SwitchToMode dispatched last, NoMode when there was none.
LastSwitch ==
    IF SwitchSends = {} THEN NoMode ELSE server_rx[Last(SwitchSends)].act.mode

ExitSends == {i \in 1..Len(server_rx) : server_rx[i].act.type \in ExitTypes}

\* handle_key has dispatched Quit or Detach.
QuitDispatched == ExitSends # {}

StructuralSends == {i \in 1..Len(server_rx) : IsStructural(server_rx[i].act)}

\* The Hold and Release actions the input thread sent for mouse events.
HoldReleaseSends ==
    {i \in 1..Len(server_rx) :
        /\ server_rx[i].by = "input"
        /\ server_rx[i].act.type \in {"MouseHold", "MouseRelease"}}

\* The mouse event handled last among Hold and Release was a Release.
ReleaseHandled ==
    /\ HoldReleaseSends # {}
    /\ server_rx[Last(HoldReleaseSends)].act.type = "MouseRelease"

\* ------------------------------------------------------------------ properties
\* C1: once handle_key has dispatched Quit or Detach the exit flag is set
\* (as soon as that dispatch has returned), no further raw event is read,
\* the thread does not panic on one, and from the top of the loop the only
\* way on is out of it.
C1_QuitStopsLoop ==
    [][ /\ (QuitDispatched' /\ pc' # "exiting") => should_exit'
        /\ QuitDispatched => (nread' = nread /\ pc' # "panicked")
        /\ (QuitDispatched /\ pc = "loop") => pc' \in {"loop", "terminated"} ]_vars

\* C1 witness: the loop has stopped after a Quit or Detach although the
\* terminal had more events to deliver.
C1_Witness ==
    /\ pc = "terminated"
    /\ QuitDispatched
    /\ client_rx = 1
    /\ nread < MaxEvents

\* C2: while a structural action is sent and its acknowledgment not yet
\* delivered, the input thread does nothing: it reads no event, resolves no
\* key, dispatches and sends nothing.
C2_BlockedUntilAck ==
    [][ InFlight > 0 =>
          /\ UNCHANGED inputVars
          /\ InputSent(server_rx') = InputSent(server_rx) ]_vars

\* C2 witness: a structural action is in flight while the thread has both
\* another action of the same key to dispatch and events left to read.
C2_Witness ==
    /\ InFlight > 0
    /\ pc = "waiting"
    /\ Len(pending) > 1
    /\ nread < MaxEvents

\* C3 as stated: while a structural action is sent and not yet acknowledged
\* nothing at all is sent to the server, by any sender.
C3_NothingSentWhileInFlight ==
    [][ InFlight > 0 => server_rx' = server_rx ]_vars

\* C3 as amended: while a structural action is sent and not yet acknowledged
\* the input thread sends nothing to the server; the repeater may.
C3_InputSendsNothingWhileInFlight ==
    [][ InFlight > 0 => InputSent(server_rx') = InputSent(server_rx) ]_vars

\* C3 witness: the repeater has sent a MouseHold after the structural action
\* that is still in flight.
C3_Witness ==
    /\ InFlight > 0
    /\ StructuralSends # {}
    /\ \E i \in 1..Len(server_rx) :
          server_rx[i].by = "repeater" /\ i > Last(StructuralSends)

\* C4: at most one structural action is in flight, and while one is the
\* input thread is parked in the gate's wait.
C4_OneInFlight ==
    /\ InFlight <= 1
    /\ InFlight = 1 => pc = "waiting"

\* C4 witness: a second structural action in flight after the first one was
\* acknowledged.
C4_Witness ==
    /\ Cardinality(StructuralSends) = 2
    /\ InFlight = 1
    /\ command_is_executing


\* C5 as stated: under a server that acknowledges every structural action,
\* a thread waiting at the gate always gets back to the top of the loop to
\* read the next raw event.
C5_WaitLeadsToNextRead ==
    (pc = "waiting") ~> (pc = "loop" /\ ~should_exit)

\* C5 as amended: under a server that acknowledges every structural action,
\* a thread waiting at the gate always gets back to the top of the loop,
\* where it reads the next raw event or, the exit flag having been set by a
\* Quit or Detach of the same key, leaves the loop.
C5_WaitLeadsToLoopOrExit ==
    (pc = "waiting") ~> (pc = "terminated" \/ (pc = "loop" /\ ~should_exit))

\* C5 witness: a structural action was sent and acknowledged, its dispatch
\* has returned and the loop is about to read the next event.
C5_Witness ==
    /\ StructuralSends # {}
    /\ InFlight = 0
    /\ ~command_is_executing
    /\ pc = "loop"
    /\ ~should_exit
    /\ nread < MaxEvents

\* C6: as long as the acknowledgment has not arrived (the gate's flag stays
\* up) a thread waiting at the gate does not move: it reads nothing, sends
\* nothing and does not terminate.
C6_NoTimeout ==
    [][ (pc = "waiting" /\ command_is_executing') =>
          /\ UNCHANGED inputVars
          /\ InputSent(server_rx') = InputSent(server_rx) ]_vars

\* C6 witness: the thread is still waiting, flag up, after the server has
\* handled everything it was sent and the repeater's timer has run out.
C6_Witness ==
    /\ pc = "waiting"
    /\ command_is_executing
    /\ served = Len(server_rx)
    /\ ticks = MaxTicks

\* C7: dispatching SwitchToMode(X) sets the mode mirror to X and sends the
\* action, and a key read after it is resolved under the X of the
\* SwitchToMode dispatched last.
C7_SwitchToMode ==
    [][ /\ (pc = "keys" /\ Head(pending).type = "SwitchToMode" /\ pending' # pending) =>
              /\ mode' = Head(pending).mode
              /\ server_rx' = Append(server_rx, Msg("input", Head(pending)))
        /\ (nread' # nread /\ pc' # "panicked" /\ LastSwitch # NoMode) =>
              \A ev \in KeyEvents :
                  handle_key(ev) =>
                      pending' = key_to_actions(cast_crossterm_key(ev), LastSwitch, keybinds) ]_vars

\* C7 witness: after a SwitchToMode(Pane) the key 'n' was read and resolved
\* to what the table binds to it in Pane mode.
C7_Witness ==
    /\ LastSwitch = "Pane"
    /\ pc = "keys"
    /\ pending = key_to_actions(Key("Char", "n"), "Pane", keybinds)
    /\ pending # key_to_actions(Key("Char", "n"), "Normal", keybinds)

\* C8: the mode mirror changes only in the dispatch of a SwitchToMode, and
\* then to that action's mode.
C8_ModeFrame ==
    [][ mode' # mode =>
          /\ pc = "keys"
          /\ Head(pending).type = "SwitchToMode"
          /\ mode' = Head(pending).mode ]_vars

\* C8 witness: a Quit, a structural action, a mouse Hold and a repeat of it
\* have all gone by with no SwitchToMode, and the loop has stopped.
C8_Witness ==
    /\ pc = "terminated"
    /\ SwitchSends = {}
    /\ StructuralSends # {}
    /\ HoldReleaseSends # {}
    /\ Len(RepeaterSent(server_rx)) > 0

\* C9: once a Release has been handled (and no Hold after it) the repeater
\* sends no more MouseHold repeats.
C9_NoRepeatAfterRelease ==
    ReleaseHandled =>
        \A i \in 1..Len(server_rx) :
            server_rx[i].by = "repeater" => i < Last(HoldReleaseSends)

\* C10: a Release cancels the active repeater: once a Release has been
\* handled (its MouseRelease sent, no Hold after it) no repeater runs. The
\* one repeater slot of the model already holds at most one.
C10_ReleaseCancelsRepeater ==
    ReleaseHandled => repeater = NoAction


\* The (mode, key) pairs the keybinding table has an entry for.
Bound(m, k) == \E b \in keybinds : b.mode = m /\ b.key = k

\* The raw key events cast_crossterm_key has a Key for.
DecodableKeyEvents == {ev \in KeyEvents : cast_crossterm_key(ev) # Unimplemented}

\* C11: a key handled while the pasting flag is set is not resolved against
\* the keybinding table: in Normal and Locked it is forwarded as one Write
\* action and the loop goes on, in any other mode nothing is sent and no
\* state of the handler changes.
C11_PastedKeyIsText ==
    [][ (pasting /\ nread' # nread) =>
          \A ev \in DecodableKeyEvents :
              handle_key(ev) =>
                  /\ pc' = "loop"
                  /\ pending' = <<>>
                  /\ UNCHANGED <<mode, should_exit, pasting, command_is_executing,
                                 client_rx, repeater>>
                  /\ IF mode \in {"Normal", "Locked"}
                     THEN /\ Len(server_rx') = Len(server_rx) + 1
                          /\ server_rx'[Len(server_rx')].by = "input"
                          /\ server_rx'[Len(server_rx')].act.type = "Write"
                     ELSE server_rx' = server_rx ]_vars

\* C12: decoding a key event never aborts: whatever the modifiers, the
\* thread does not panic on a key, and Ctrl or Alt with a Char key gives
\* Ctrl(c) or Alt(c).
C12_KeyDecodingNeverAborts ==
    [][ nread' # nread =>
          \A ev \in KeyEvents :
              handle_key(ev) =>
                  /\ pc' # "panicked"
                  /\ (ev.code = "Char" /\ ev.modifiers = "CONTROL")
                        => key_read' = Key("Ctrl", ev.c)
                  /\ (ev.code = "Char" /\ ev.modifiers = "ALT")
                        => key_read' = Key("Alt", ev.c) ]_vars

\* C13: a pointer-moved mouse event is dropped: nothing is sent, the mode
\* mirror, the flags and the repeater stay as they are and the loop goes on.
C13_MovedIsIgnored ==
    [][ nread' # nread =>
          \A ev \in MouseEvents :
              (ev.kind = "Moved" /\ handle_mouse_event(ev)) =>
                  /\ pc' = "loop"
                  /\ UNCHANGED <<mode, should_exit, pasting, repeater, server_rx,
                                 client_rx, command_is_executing>> ]_vars


\* C14: handling a key the table has no entry for in the current mode
\* (pasting unset) sends nothing, engages no gate and leaves the mode
\* mirror and the exit flag as they are; the loop is back at its top.
C14_UnboundKeyDoesNothing ==
    [][ (~pasting /\ nread' # nread) =>
          \A ev \in DecodableKeyEvents :
              (handle_key(ev) /\ ~Bound(mode, cast_crossterm_key(ev))) =>
                  /\ pc' = "loop"
                  /\ pending' = <<>>
                  /\ UNCHANGED <<server_rx, command_is_executing, mode,
                                 should_exit, client_rx, repeater>> ]_vars

\* C14 witness: a key with no entry in the current mode was the first event
\* read; nothing has been sent and the loop is at its top.
C14_Witness ==
    /\ nread = 1
    /\ key_read \notin {NoKey, Unimplemented}
    /\ ~Bound(mode, key_read)
    /\ pc = "loop"
    /\ server_rx = <<>>
    /\ ~command_is_executing
    /\ ~should_exit

\* The actions of the last n messages the input thread sent.
LastInputActs(n) ==
    LET sent == InputSent(server_rx) IN
    [i \in 1..n |-> sent[Len(sent) - n + i].act]

\* The thread is in handle_key's for loop.
InHandleKey == pc \in {"keys", "exiting", "engaged", "waiting"}

\* The actions of entry b the thread has sent for the key it is handling:
\* all but those left in pending, and the head of pending too once sent.
SentOf(b) ==
    Len(b.actions) - Len(pending) + (IF pc \in {"exiting", "waiting"} THEN 1 ELSE 0)

\* Entry b is what handle_key is working through: what is left of it is
\* pending, what went before has been sent, last, in b's order.
WorkingThrough(b) ==
    /\ b.key = key_read
    /\ Len(pending) <= Len(b.actions)
    /\ pending = SubSeq(b.actions, Len(b.actions) - Len(pending) + 1, Len(b.actions))
    /\ SentOf(b) <= Len(InputSent(server_rx))
    /\ LastInputActs(SentOf(b)) = SubSeq(b.actions, 1, SentOf(b))

IsPrefix(p, q) == Len(p) <= Len(q) /\ SubSeq(q, 1, Len(p)) = p

\* C15: the actions bound to a key are sent in the table's order: while a
\* key is handled, and when its last action goes out, what the thread has
\* sent last is the entry's actions in order; an event is read only when
\* the actions of the event before are all sent, and what is sent is only
\* ever added at the end.
C15_SendOrder ==
    /\ [](InHandleKey => \E b \in keybinds : WorkingThrough(b))
    /\ [][ /\ (InHandleKey /\ ~InHandleKey') =>
                \E b \in keybinds :
                    /\ b.key = key_read
                    /\ Len(b.actions) <= Len(InputSent(server_rx'))
                    /\ LET sent == InputSent(server_rx')
                           n == Len(b.actions) IN
                       [i \in 1..n |-> sent[Len(sent) - n + i].act] = b.actions
           /\ nread' # nread => (pending = <<>> /\ pc = "loop")
           /\ IsPrefix(server_rx, server_rx') ]_vars

\* C15 witness: two keys were read, Ctrl-p in Normal and then 'n' in Pane,
\* and their three actions were sent in that order.
C15_Witness ==
    /\ pc = "loop"
    /\ key_read = Key("Char", "n")
    /\ Len(InputSent(server_rx)) = 3
    /\ LastInputActs(3) = <<SwitchToMode("Pane"), Act("NewPane"), SwitchToMode("Normal")>>

\* The action handle_mouse_event has to send for a raw mouse event.
ExpectedMouseType(ev) ==
    CASE ev.kind = "ScrollUp"                      -> "ScrollUpAt"
      [] ev.kind = "ScrollDown"                    -> "ScrollDownAt"
      [] ev.kind = "Down" /\ ev.button = "Left"    -> "LeftClick"
      [] ev.kind = "Up"                            -> "MouseRelease"
      [] ev.kind = "Drag"                          -> "MouseHold"
      [] OTHER                                     -> "None"

\* C16: the action sent for a down, up, drag or scroll event at one-based
\* (column, row) carries row - 1 and column - 1, 0 where that would be
\* negative; wheel-up at (column 5, row 10) is sent as ScrollUpAt(9, 4).
C16_MousePosition ==
    [][ nread' # nread =>
          \A ev \in MouseEvents :
              (ev.kind # "Moved" /\ handle_mouse_event(ev)) =>
                  LET r == IF ev.row = 0 THEN 0 ELSE ev.row - 1
                      c == IF ev.column = 0 THEN 0 ELSE ev.column - 1
                      t == ExpectedMouseType(ev) IN
                  /\ MouseEventFrom(ev).point = [row |-> r, col |-> c]
                  /\ server_rx' =
                        IF t = "None" THEN server_rx
                        ELSE Append(server_rx,
                                    [by |-> "input",
                                     act |-> [type |-> t, mode |-> NoMode,
                                              row |-> r, col |-> c]])
                  /\ (ev.kind = "ScrollUp" /\ ev.column = 5 /\ ev.row = 10) =>
                        server_rx'[Len(server_rx')].act =
                            [type |-> "ScrollUpAt", mode |-> NoMode, row |-> 9, col |-> 4] ]_vars

\* C16 witness: a wheel-up at (column 5, row 10) and an event at (0, 0) or
\* (1, 1) have both been handled.
C16_Witness ==
    /\ \E i \in 1..Len(server_rx) :
          server_rx[i] = Msg("input", PointAct("ScrollUpAt", Position(9, 4)))
    /\ \E i \in 1..Len(server_rx) :
          /\ server_rx[i].by = "input"
          /\ server_rx[i].act.type \in {"LeftClick", "MouseRelease", "MouseHold", "ScrollDownAt"}
          /\ server_rx[i].act.row = 0
          /\ server_rx[i].act.col = 0


\* C17: every Quit or Detach sent to the server is followed by one Exit
\* notification to the client, sent after it; a key bound to the single
\* action Quit ends with exactly one Quit sent, exactly one notification
\* and the loop stopped, no event being read after it.
C17_QuitEndToEnd ==
    /\ [](client_rx = Cardinality(ExitSends) - (IF pc = "exiting" THEN 1 ELSE 0))
    /\ []((/\ pc \in {"loop", "terminated"}
           /\ \E b \in keybinds :
                 b.key = key_read /\ b.mode = mode /\ b.actions = <<Act("Quit")>>)
          => /\ should_exit
             /\ Cardinality(ExitSends) = 1
             /\ client_rx = 1
             /\ LastInputActs(1) = <<Act("Quit")>>)
    /\ [][ /\ client_rx' # client_rx =>
                /\ pc = "exiting"
                /\ client_rx' = client_rx + 1
                /\ server_rx' = server_rx
                /\ Head(pending).type \in ExitTypes
                /\ LastInputActs(1) = <<Head(pending)>>
           /\ should_exit => nread' = nread ]_vars

\* C17 witness: Ctrl-q, bound to Quit alone, was the only key read: one
\* Quit sent, one notification, loop stopped.
C17_Witness ==
    /\ pc = "terminated"
    /\ key_read = Key("Ctrl", "q")
    /\ nread = 1
    /\ server_rx = <<Msg("input", Act("Quit"))>>
    /\ client_rx = 1

\* C18: for a structural action the thread engages the gate, then sends,
\* then waits; once the acknowledgment of what it sent has been delivered
\* the gate's flag is down, and the wait returns whenever it is reached.
C18_EngageSendWait ==
    /\ [](pc = "engaged" => command_is_executing)
    /\ []((pc = "waiting" /\ InFlight = 0) =>
              /\ ~command_is_executing
              /\ ENABLED wait_until_input_thread_is_unblocked)
    /\ [][ (pc # "waiting" /\ pc' = "waiting") =>
              /\ pc = "engaged"
              /\ command_is_executing
              /\ IsStructural(Head(pending))
              /\ server_rx' = Append(server_rx, Msg("input", Head(pending))) ]_vars

\* C18 witness: the acknowledgment has been delivered after the send and
\* before the thread has come back from the wait.
C18_Witness ==
    /\ pc = "waiting"
    /\ IsStructural(Head(pending))
    /\ InFlight = 0
    /\ acks = 0
    /\ ~command_is_executing

\* C19: the exit flag is looked at only at the top of the loop: with the
\* flag set and actions of the key still to dispatch the thread goes on
\* dispatching them one by one, and when the loop has stopped the whole
\* sequence bound to the key, Quit or Detach included, has been sent in
\* order and every structural action of it acknowledged.
C19_ExitIsCooperative ==
    /\ [](pc = "terminated" =>
            /\ pending = <<>>
            /\ InFlight = 0
            /\ \E b \in keybinds :
                  /\ b.key = key_read
                  /\ \E i \in 1..Len(b.actions) : b.actions[i].type \in ExitTypes
                  /\ Len(b.actions) <= Len(InputSent(server_rx))
                  /\ LastInputActs(Len(b.actions)) = b.actions)
    /\ [][ (should_exit /\ pending # <<>>) =>
              /\ pc' # "terminated"
              /\ pending' \in {pending, Tail(pending)} ]_vars

\* C19 witness: the key bound to <<Quit, CloseFocus>> was handled: the
\* CloseFocus went out after the Quit, and only then did the loop stop.
C19_Witness ==
    /\ pc = "terminated"
    /\ key_read = Key("Char", "q")
    /\ Len(InputSent(server_rx)) >= 2
    /\ LastInputActs(2) = <<Act("Quit"), Act("CloseFocus")>>
    /\ client_rx = 1

\* C20: reading a Resize event sends nothing, leaves the mode mirror and
\* the flags as they are, and the loop stays at its top for the next event.
C20_ResizeIsSkipped ==
    [][ ReadResize =>
          /\ pc' = "loop"
          /\ UNCHANGED <<mode, should_exit, pasting, server_rx, client_rx>> ]_vars

=============================================================================
